---- MODULE Spec2Model ----
\* Session registry of src/http_api.py: the handlers
\* http_api_open_inference_session, http_api_close_inference_session and
\* http_api_generate running on concurrent worker threads over the
\* module-level storage_lock and inference_sessions (a hivemind.TimedStorage).
EXTENDS Integers, FiniteSets, Sequences, TLC

\* ---------------------------------------------------------------- bounds
NumThreads == 2          \* concurrent request handlers
MaxIds == 3              \* session ids uuid4() hands out in one run
MaxTime == 3             \* last value of the clock

\* ------------------------------------------------- program configuration
MAX_SESSIONS == 2        \* config.MAX_SESSIONS
STEP_TIMEOUT == 2        \* config.STEP_TIMEOUT

Threads == 1..NumThreads
Ids == 1..MaxIds
NoThread == 0            \* a lock nobody holds
NoSession == -1          \* request.values.get("session_id") is None
UnknownId == 0           \* a session_id string no open ever returned

VARIABLES
    now,                 \* hivemind.get_dht_time()
    storage_lock,        \* holder of storage_lock, or NoThread
    inference_sessions,  \* TimedStorage.data: session_id -> expiration_time
    lock_owner,          \* holder of each session's threading.Lock
    next_id,             \* the next id uuid4() returns
    pc,                  \* position of each worker thread in its handler
    session_id,          \* the handler's local session_id
    session_lock,        \* the handler's local session_lock (id of its session)
    result,              \* what the handler's last request returned
    handles,             \* ghost: sessions whose external handle was opened
    closed,              \* ghost: ids on which a close request has completed
    seen,                \* ghost: 1 when generate's lookup met a live entry
    touched,             \* ghost: clock value of the last store per session
    script               \* ghost: results of the requests of the scenario

vars == <<now, storage_lock, inference_sessions, lock_owner, next_id, pc,
          session_id, session_lock, result, handles, closed, seen,
          touched, script>>

\* ------------------------------------------------ hivemind.TimedStorage
\* The storage is a dict key -> (value, expiration_time) plus a heap of
\* expiration times; every reading method first drops the entries whose
\* expiration_time is strictly before the clock.  The value of an entry is
\* the pair (session, session_lock), both named by the key here.

\* TimedStorage._remove_outdated
RemoveOutdated(data, t) ==
    [k \in {j \in DOMAIN data : ~(data[j] < t)} |-> data[k]]

\* TimedStorage.__len__
StorageLen(data, t) == Cardinality(DOMAIN RemoveOutdated(data, t))

\* TimedStorage.__contains__
Contains(data, key, t) == key \in DOMAIN RemoveOutdated(data, t)

\* TimedStorage.store: rejects an expiration in the past, keeps the newer
\* expiration of an existing key, sweeps after inserting a new key
Store(data, key, exp, t) ==
    IF exp < t THEN data
    ELSE IF key \in DOMAIN data
         THEN IF data[key] < exp
              THEN [data EXCEPT ![key] = exp]
              ELSE data
         ELSE RemoveOutdated([k \in DOMAIN data \cup {key} |->
                                 IF k = key THEN exp ELSE data[k]], t)

\* TimedStorage.__delitem__: a missing key is ignored
DelItem(data, key) ==
    [k \in DOMAIN data \ {key} |-> data[k]]

\* ------------------------------------------------------------- helpers
EmptyStorage == [k \in {} |-> 0]

\* outcomes recorded in result
Results == {"none", "ok", "UnknownModel", "CapacityExceeded",
            "SessionNotFound", "AttributeError", "GenerationFailure"}

\* what a request may name as session_id: an id some open returned, or a
\* string that is nobody's id
Nameable == (1..(next_id - 1)) \cup {UnknownId}

Init ==
    /\ now = 0
    /\ storage_lock = NoThread
    /\ inference_sessions = EmptyStorage
    /\ lock_owner = [s \in Ids |-> NoThread]
    /\ next_id = 1
    /\ pc = [t \in Threads |-> "idle"]
    /\ session_id = [t \in Threads |-> NoSession]
    /\ session_lock = [t \in Threads |-> NoSession]
    /\ result = [t \in Threads |-> "none"]
    /\ handles = {}
    /\ closed = {}
    /\ seen = [t \in Threads |-> 0]
    /\ touched = EmptyStorage
    /\ script = <<>>

\* entries a lookup at the present clock value answers for
Live(s) == s \in DOMAIN inference_sessions /\ inference_sessions[s] >= now
LiveIds == {s \in Ids : Live(s)}

\* opens under way that have not drawn their id yet
Opening == {t \in Threads : pc[t] \in {"open_acquire", "open_session"}}

\* the run still has an id for one more open
IdsLeft == next_id + Cardinality(Opening) <= MaxIds

\* the scenario of the capacity test: three opens, a close of one of the
\* first two sessions, a fourth open, each request issued after the previous
\* one returned
Scenario == <<"open", "open", "open", "close", "open">>
Off == <<"off">>
AllIdle == \A u \in Threads : pc[u] = "idle"
ScriptStart(kind, fits) ==
    IF /\ script # Off
       /\ AllIdle
       /\ fits
       /\ Len(script) < Len(Scenario)
       /\ Scenario[Len(script) + 1] = kind
    THEN script
    ELSE Off
ScriptEnd(r) == IF script = Off THEN Off ELSE Append(script, r)

\* the handler returns: jsonify(...) after the try body or in except
Return(t, r) ==
    /\ pc' = [pc EXCEPT ![t] = "idle"]
    /\ result' = [result EXCEPT ![t] = r]
    /\ session_lock' = [session_lock EXCEPT ![t] = NoSession]
    /\ seen' = [seen EXCEPT ![t] = 0]

\* ------------------------------------- http_api_open_inference_session
\* lines 140-144: model, _ = models[model_name]
OpenStart(t, known) ==
    /\ pc[t] = "idle"
    /\ IdsLeft
    /\ session_id' = [session_id EXCEPT ![t] = NoSession]
    /\ IF known
       THEN /\ pc' = [pc EXCEPT ![t] = "open_acquire"]
            /\ result' = [result EXCEPT ![t] = "none"]
            /\ UNCHANGED <<session_lock, seen>>
       ELSE Return(t, "UnknownModel")
    /\ script' = ScriptStart("open", known)
    /\ UNCHANGED <<now, storage_lock, inference_sessions, lock_owner, next_id,
                   handles, closed, touched>>

\* the capacity test lets the registry grow one past the cap
FullOffByOne(n) == n > MAX_SESSIONS
\* the capacity test never refuses
FullNever(n) == FALSE
\* the capacity test refuses while one slot is free
FullEarly(n) == n >= MAX_SESSIONS - 1

\* line 146: the capacity test of open
Full(n) == n >= MAX_SESSIONS

\* a capacity test on the number of keys, expired entries included
OpenCheckRaw(t) ==
    /\ pc[t] = "open_acquire"
    /\ storage_lock = NoThread
    /\ IF Full(Cardinality(DOMAIN inference_sessions))
       THEN /\ Return(t, "CapacityExceeded")
            /\ UNCHANGED storage_lock
       ELSE /\ storage_lock' = t
            /\ pc' = [pc EXCEPT ![t] = "open_session"]
            /\ UNCHANGED <<result, session_lock, seen>>
    /\ script' = IF Full(Cardinality(DOMAIN inference_sessions))
                 THEN ScriptEnd("CapacityExceeded") ELSE script
    /\ UNCHANGED <<now, inference_sessions, lock_owner, next_id, session_id,
                   handles, closed, touched>>

\* lines 145-149: with storage_lock; len(inference_sessions) is compared
\* with config.MAX_SESSIONS; raising leaves the with block, which releases
\* storage_lock
OpenCheck(t) ==
    /\ pc[t] = "open_acquire"
    /\ storage_lock = NoThread
    /\ inference_sessions' = RemoveOutdated(inference_sessions, now)
    /\ IF Full(StorageLen(inference_sessions, now))
       THEN /\ Return(t, "CapacityExceeded")
            /\ UNCHANGED storage_lock
       ELSE /\ storage_lock' = t
            /\ pc' = [pc EXCEPT ![t] = "open_session"]
            /\ UNCHANGED <<result, session_lock, seen>>
    /\ script' = IF Full(StorageLen(inference_sessions, now))
                 THEN ScriptEnd("CapacityExceeded") ELSE script
    /\ UNCHANGED <<now, lock_owner, next_id, session_id, handles, closed,
                   touched>>

\* an expiration without the timeout
ExpirationNoTimeout == now

\* lines 161, 212: the expiration an entry is stored with
Expiration == now + STEP_TIMEOUT

\* lines 153-164: the handle is opened, its lock created, uuid4() drawn, the
\* entry stored, storage_lock released and the id returned
OpenStore(t) ==
    /\ pc[t] = "open_session"
    /\ handles' = handles \cup {next_id}
    /\ lock_owner' = [lock_owner EXCEPT ![next_id] = NoThread]
    /\ session_id' = [session_id EXCEPT ![t] = next_id]
    /\ next_id' = next_id + 1
    /\ inference_sessions' =
           Store(inference_sessions, next_id, Expiration, now)
    /\ storage_lock' = NoThread
    /\ Return(t, "ok")
    /\ UNCHANGED <<now, closed>>
    /\ script' = ScriptEnd("ok")
    /\ touched' = [s \in DOMAIN touched \cup {next_id} |->
                      IF s = next_id THEN now ELSE touched[s]]

\* ------------------------------------ http_api_close_inference_session
\* line 172: session_id = request.values.get("session_id")
CloseStart(t, s) ==
    /\ pc[t] = "idle"
    /\ session_id' = [session_id EXCEPT ![t] = s]
    /\ pc' = [pc EXCEPT ![t] = "close_acquire"]
    /\ result' = [result EXCEPT ![t] = "none"]
    /\ script' = ScriptStart("close", s \in 1..2)
    /\ UNCHANGED <<now, storage_lock, inference_sessions, lock_owner, next_id,
                   session_lock, handles, closed, seen, touched>>

\* a close that empties the registry
DeletedAll(t) == EmptyStorage

\* a close that deletes nothing
DeletedNothing(t) == inference_sessions

\* line 176: del inference_sessions[session_id]
Deleted(t) == DelItem(inference_sessions, session_id[t])

\* lines 175-178: with storage_lock, the entry is deleted, the lock released
\* and the id returned
CloseDel(t) ==
    /\ pc[t] = "close_acquire"
    /\ storage_lock = NoThread
    /\ inference_sessions' = Deleted(t)
    /\ closed' = closed \cup ({session_id[t]} \cap Ids)
    /\ Return(t, "ok")
    /\ script' = ScriptEnd("ok")
    /\ UNCHANGED <<now, storage_lock, lock_owner, next_id, session_id,
                   handles, touched>>

\* a generate that looks its session up whether or not one is named
GenerateStartAlwaysLookup(t, known, s) ==
    /\ pc[t] = "idle"
    /\ session_id' = [session_id EXCEPT ![t] = s]
    /\ IF known
       THEN /\ pc' = [pc EXCEPT ![t] = "gen_acquire"]
            /\ result' = [result EXCEPT ![t] = "none"]
            /\ UNCHANGED <<session_lock, seen>>
       ELSE Return(t, "UnknownModel")
    /\ script' = Off
    /\ UNCHANGED <<now, storage_lock, inference_sessions, lock_owner, next_id,
                   handles, closed, touched>>

\* a generate that refreshes its session before it resolves the model
GenerateStartLateModel(t, known, s) ==
    /\ pc[t] = "idle"
    /\ session_id' = [session_id EXCEPT ![t] = s]
    /\ IF known
       THEN /\ pc' = [pc EXCEPT ![t] =
                        IF s = NoSession THEN "gen_lock" ELSE "gen_acquire"]
            /\ result' = [result EXCEPT ![t] = "none"]
            /\ UNCHANGED <<session_lock, seen, inference_sessions>>
       ELSE /\ Return(t, "UnknownModel")
            /\ inference_sessions' =
                   IF s \in DOMAIN inference_sessions
                   THEN [inference_sessions EXCEPT ![s] = now + STEP_TIMEOUT]
                   ELSE inference_sessions
    /\ script' = Off
    /\ UNCHANGED <<now, storage_lock, lock_owner, next_id, handles, closed,
                   touched>>

\* ---------------------------------------------------- http_api_generate
\* lines 186-204, 214-216: arguments, model, tokenizer = models[model_name];
\* without session_id the lock is nullcontext()
GenerateStart(t, known, s) ==
    /\ pc[t] = "idle"
    /\ session_id' = [session_id EXCEPT ![t] = s]
    /\ IF known
       THEN /\ pc' = [pc EXCEPT ![t] =
                        IF s = NoSession THEN "gen_lock" ELSE "gen_acquire"]
            /\ result' = [result EXCEPT ![t] = "none"]
            /\ UNCHANGED <<session_lock, seen>>
       ELSE Return(t, "UnknownModel")
    /\ script' = Off
    /\ UNCHANGED <<now, storage_lock, inference_sessions, lock_owner, next_id,
                   handles, closed, touched>>

\* membership test on the keys alone, expired entries included
NotFoundRaw(t) == session_id[t] \notin DOMAIN inference_sessions

\* line 206: session_id not in inference_sessions
NotFound(t) == ~Contains(inference_sessions, session_id[t], now)

\* lines 205-207: with storage_lock; a session_id that is not in
\* inference_sessions raises KeyError, which releases storage_lock
GenerateContains(t) ==
    /\ pc[t] = "gen_acquire"
    /\ storage_lock = NoThread
    /\ inference_sessions' = RemoveOutdated(inference_sessions, now)
    /\ IF NotFound(t)
       THEN /\ Return(t, "SessionNotFound")
            /\ UNCHANGED storage_lock
       ELSE /\ storage_lock' = t
            /\ pc' = [pc EXCEPT ![t] = "gen_get"]
            /\ seen' = [seen EXCEPT ![t] = IF Live(session_id[t])
                                            THEN 1 ELSE 0]
            /\ UNCHANGED <<result, session_lock>>
    /\ UNCHANGED <<now, lock_owner, next_id, session_id, handles, closed,
                   script, touched>>

\* one lock shared by all sessions
LockOfShared(s) == 1

\* lines 155, 160, 208: every session is stored with a threading.Lock of its
\* own, which is what the lookup hands out
LockOf(s) == s

\* line 208: inference_sessions.get(session_id).value; get() sweeps again and
\* returns None for an entry that expired since line 206, and None.value
\* raises AttributeError
GenerateGet(t) ==
    /\ pc[t] = "gen_get"
    /\ inference_sessions' = RemoveOutdated(inference_sessions, now)
    /\ IF Contains(inference_sessions, session_id[t], now)
       THEN /\ session_lock' = [session_lock EXCEPT ![t] = LockOf(session_id[t])]
            /\ pc' = [pc EXCEPT ![t] = "gen_store"]
            /\ UNCHANGED <<storage_lock, result, seen>>
       ELSE /\ storage_lock' = NoThread
            /\ Return(t, "AttributeError")
    /\ UNCHANGED <<now, lock_owner, next_id, session_id, handles, closed,
                   script, touched>>

\* a refresh that keeps storage_lock into the generation
GenerateStoreHolding(t) ==
    /\ pc[t] = "gen_store"
    /\ inference_sessions' =
           Store(inference_sessions, session_id[t], Expiration, now)
    /\ pc' = [pc EXCEPT ![t] = "gen_lock"]
    /\ touched' = [touched EXCEPT ![session_id[t]] = now]
    /\ UNCHANGED <<now, storage_lock, lock_owner, next_id, session_id,
                   session_lock, result, handles, closed, seen, script>>

\* lines 209-213: the entry is stored again with now + STEP_TIMEOUT and
\* storage_lock is released
GenerateStore(t) ==
    /\ pc[t] = "gen_store"
    /\ inference_sessions' =
           Store(inference_sessions, session_id[t], Expiration, now)
    /\ storage_lock' = NoThread
    /\ pc' = [pc EXCEPT ![t] = "gen_lock"]
    /\ touched' = [touched EXCEPT ![session_id[t]] = now]
    /\ UNCHANGED <<now, lock_owner, next_id, session_id, session_lock, result,
                   handles, closed, seen, script>>

\* acquire that does not wait for the holder
FreeAlways(l) == TRUE

\* line 218: threading.Lock.acquire succeeds on a lock nobody holds
Free(l) == lock_owner[l] = NoThread

\* line 218: with session_lock; nullcontext() when no session is named
GenerateLock(t) ==
    /\ pc[t] = "gen_lock"
    /\ IF session_lock[t] = NoSession
       THEN UNCHANGED lock_owner
       ELSE /\ Free(session_lock[t])
            /\ lock_owner' = [lock_owner EXCEPT ![session_lock[t]] = t]
    /\ pc' = [pc EXCEPT ![t] = "generating"]
    /\ UNCHANGED <<now, storage_lock, inference_sessions, next_id, session_id,
                   session_lock, result, handles, closed, seen, script,
                   touched>>

\* leaving the block without releasing
ReleaseNothing(t) == lock_owner

\* leaving the with block of line 218 releases the session's lock
Release(t) ==
    IF session_lock[t] = NoSession
    THEN lock_owner
    ELSE [lock_owner EXCEPT ![session_lock[t]] = NoThread]

\* a generation that refreshes the entry when it returns
GenerateReturnRefreshing(t) ==
    /\ pc[t] = "generating"
    /\ lock_owner' = Release(t)
    /\ Return(t, "ok")
    /\ inference_sessions' =
           IF session_id[t] \in DOMAIN inference_sessions
           THEN Store(inference_sessions, session_id[t], Expiration, now)
           ELSE inference_sessions
    /\ UNCHANGED <<now, storage_lock, next_id, session_id, handles, closed,
                   script, touched>>

\* lines 219-232: model.generate returns, the lock is released, the text
\* decoded and returned
GenerateReturn(t) ==
    /\ pc[t] = "generating"
    /\ lock_owner' = Release(t)
    /\ Return(t, "ok")
    /\ UNCHANGED <<now, storage_lock, inference_sessions, next_id, session_id,
                   handles, closed, script, touched>>

\* a failed generation that also drops the session's entry
GenerateRaiseClosing(t) ==
    /\ pc[t] = "generating"
    /\ lock_owner' = Release(t)
    /\ Return(t, "GenerationFailure")
    /\ inference_sessions' = DelItem(inference_sessions, session_id[t])
    /\ UNCHANGED <<now, storage_lock, next_id, session_id, handles, closed,
                   script, touched>>

\* lines 219-228, 233-234: model.generate raises, the with block releases
\* the lock and the except clause reports the failure
GenerateRaise(t) ==
    /\ pc[t] = "generating"
    /\ lock_owner' = Release(t)
    /\ Return(t, "GenerationFailure")
    /\ UNCHANGED <<now, storage_lock, inference_sessions, next_id, session_id,
                   handles, closed, script, touched>>

\* lines 208, 227: the session objects a handler still refers to
Referenced == {s \in Ids : \E t \in Threads : session_lock[t] = LockOf(s)}

\* the handlers never call session.__exit__ or close; a handle is released
\* by the collector, once neither the registry nor a handler refers to it
Collected == {s \in handles : s \notin DOMAIN inference_sessions
                               /\ s \notin Referenced}

\* the clock advances at any moment, also inside a critical section
Tick ==
    /\ now < MaxTime
    /\ now' = now + 1
    /\ UNCHANGED <<storage_lock, inference_sessions, lock_owner, next_id, pc,
                   session_id, session_lock, result, handles, closed, seen,
                   script, touched>>

Next ==
    \/ Tick
    \/ \E t \in Threads :
        \/ \E known \in BOOLEAN : OpenStart(t, known)
        \/ OpenCheck(t)
        \/ OpenStore(t)
        \/ \E s \in Nameable : CloseStart(t, s)
        \/ CloseDel(t)
        \/ \E known \in BOOLEAN, s \in Nameable \cup {NoSession} :
               GenerateStart(t, known, s)
        \/ GenerateContains(t)
        \/ GenerateGet(t)
        \/ GenerateStore(t)
        \/ GenerateLock(t)
        \/ GenerateReturn(t)
        \/ GenerateRaise(t)

Spec == Init /\ [][Next]_vars

\* lines 137-234: the steps of a handler that has been entered; a request is
\* free to arrive or not, a handler that can take its next step takes it
HandlerStep(t) ==
    \/ OpenCheck(t)
    \/ OpenStore(t)
    \/ CloseDel(t)
    \/ GenerateContains(t)
    \/ GenerateGet(t)
    \/ GenerateStore(t)
    \/ GenerateLock(t)
    \/ GenerateReturn(t)
    \/ GenerateRaise(t)

\* fair scheduling of the handler threads; create_session and model.generate
\* terminate. threading.Lock (lines 26, 156) hands a released lock to
\* whichever thread acquires first, it keeps no queue of waiters, so a
\* waiter is only weakly fair: it proceeds if the lock stays free.
FairSpec == Spec /\ \A t \in Threads : WF_vars(HandlerStep(t))

\* ===================================================== checked properties
\* steps of the handlers, recognised by the position they leave
OpenChecks(t) == pc[t] = "open_acquire" /\ pc'[t] # "open_acquire"
OpenStores(t) == pc[t] = "open_session" /\ pc'[t] # "open_session"
CloseDeletes(t) == pc[t] = "close_acquire" /\ pc'[t] # "close_acquire"
Looks(t) == pc[t] = "gen_acquire" /\ pc'[t] # "gen_acquire"
Gets(t) == pc[t] = "gen_get" /\ pc'[t] # "gen_get"
Refreshes(t) == pc[t] = "gen_store" /\ pc'[t] # "gen_store"
Fails(t) == pc[t] = "generating" /\ result'[t] = "GenerationFailure"

\* threads inside model.generate with the handle of session s
Generating(s) == {t \in Threads : pc[t] = "generating" /\ session_id[t] = s}
\* opens that passed the capacity test and have not stored their entry
Passed == {t \in Threads : pc[t] = "open_session"}
\* positions of generate after the lookup
AfterLookup == {"gen_get", "gen_store", "gen_lock", "generating"}
\* the thread whose lock thread t is waiting for, NoThread when it can go on
WaitsFor(t) ==
    IF pc[t] \in {"open_acquire", "close_acquire", "gen_acquire"}
    THEN storage_lock
    ELSE IF pc[t] = "gen_lock" /\ session_lock[t] # NoSession
         THEN lock_owner[session_lock[t]]
         ELSE NoThread
\* a session that was opened and that no close has named
NeverClosed(s) == s \in handles /\ s \notin closed
\* the last store of session s is at most STEP_TIMEOUT/2 ago
Recent(s) == s \in DOMAIN touched
             /\ 2 * (now - touched[s]) <= STEP_TIMEOUT
\* thread u's last request was a generate on session s that failed inside
\* model.generate
FailedOn(u, s) == /\ pc[u] = "idle"
                  /\ result[u] = "GenerationFailure"
                  /\ session_id[u] = s

\* C1: the live entries, together with the opens that have passed the
\* capacity test and not yet stored their entry, never exceed MAX_SESSIONS;
\* so two opens never both pass the test for one free slot.
C1_Capacity ==
    Cardinality(LiveIds) + Cardinality(Passed) <= MAX_SESSIONS
C1_Witness ==
    \E t, u \in Threads :
        /\ pc[t] = "open_session"
        /\ pc[u] = "open_acquire"
        /\ Cardinality(LiveIds) = MAX_SESSIONS - 1

\* C2: at most one thread at a time is inside model.generate with the
\* handle of a given session.
C2_MutualExclusion ==
    \A s \in Ids : Cardinality(Generating(s)) <= 1
C2_Witness ==
    \E t, u \in Threads :
        /\ t # u
        /\ session_id[t] \in Ids
        /\ pc[t] = "generating"
        /\ pc[u] = "gen_lock"
        /\ session_id[u] = session_id[t]

\* C3: an open that meets MAX_SESSIONS live entries returns
\* CapacityExceeded in that step, without opening a handle, creating a lock
\* or drawing an id, and leaves the registry and the locks as they were.
C3_FullOpenFails ==
    [][\A t \in Threads :
          (OpenChecks(t) /\ Cardinality(LiveIds) >= MAX_SESSIONS)
          => /\ pc'[t] = "idle"
             /\ result'[t] = "CapacityExceeded"
             /\ handles' = handles
             /\ next_id' = next_id
             /\ lock_owner' = lock_owner
             /\ inference_sessions' = inference_sessions
             /\ storage_lock' = NoThread]_vars
C3_Witness ==
    \E t \in Threads :
        /\ pc[t] = "idle"
        /\ result[t] = "CapacityExceeded"
        /\ Cardinality(LiveIds) = MAX_SESSIONS
        /\ Cardinality(handles) = MAX_SESSIONS

\* C4: a thread inside model.generate on one session is never the thread a
\* generate call on a different session is waiting for, neither at
\* storage_lock nor at its session's lock.
C4_Isolation ==
    \A t, u \in Threads :
        (/\ pc[u] = "generating"
         /\ pc[t] \in {"gen_acquire", "gen_lock"}
         /\ session_id[t] # session_id[u])
        => WaitsFor(t) # u
C4_Witness ==
    \E t, u \in Threads :
        /\ pc[t] = "generating"
        /\ pc[u] = "generating"
        /\ session_id[t] \in Ids
        /\ session_id[u] \in Ids
        /\ session_id[t] # session_id[u]

\* C5: a generate whose lookup meets an entry that is not live (its
\* expiration has passed, or it is gone) returns SessionNotFound in that
\* step and takes no lock; every generate found past its lookup met a live
\* entry.
C5_Expiry ==
    [][/\ \A t \in Threads :
            (Looks(t) /\ ~Live(session_id[t]))
            => /\ pc'[t] = "idle"
               /\ result'[t] = "SessionNotFound"
               /\ lock_owner' = lock_owner
               /\ storage_lock' = NoThread
       /\ \A t \in Threads :
            (pc'[t] \in AfterLookup /\ session_id'[t] # NoSession)
            => seen'[t] = 1]_vars
C5_Witness ==
    \E t \in Threads :
        /\ pc[t] = "idle"
        /\ result[t] = "SessionNotFound"
        /\ NeverClosed(session_id[t])

C7_ClosedIsTerminal ==
    [][/\ closed' \cap DOMAIN inference_sessions' = {}
       /\ \A t \in Threads :
            (Looks(t) /\ session_id[t] \in closed)
            => pc'[t] = "idle" /\ result'[t] = "SessionNotFound"]_vars
C7_Witness ==
    \E t \in Threads :
        /\ pc[t] = "idle"
        /\ result[t] = "SessionNotFound"
        /\ session_id[t] \in closed
        /\ now <= STEP_TIMEOUT

\* C8: a session's lock is held only by a thread that is inside the with
\* block of generate on that lock; a thread that has returned holds none.
C8_GuaranteedRelease ==
    \A s \in Ids :
        lock_owner[s] # NoThread
        => /\ pc[lock_owner[s]] = "generating"
           /\ session_lock[lock_owner[s]] = s
C8_Witness ==
    \E t \in Threads :
        /\ pc[t] = "idle"
        /\ result[t] = "GenerationFailure"
        /\ session_id[t] \in Ids
        /\ lock_owner[session_id[t]] = NoThread

\* C9: the step in which model.generate fails leaves the registry as it
\* was and the session's lock free; a later lookup of the same session,
\* while it is live, finds it.
C9_FailureKeepsSession ==
    [][/\ \A t \in Threads :
            Fails(t)
            => /\ inference_sessions' = inference_sessions
               /\ session_lock[t] # NoSession
                  => lock_owner'[session_lock[t]] = NoThread
       /\ \A t, u \in Threads :
            (Looks(t) /\ FailedOn(u, session_id[t]) /\ Live(session_id[t]))
            => pc'[t] = "gen_get"]_vars
C9_Witness ==
    \E t, u \in Threads, s \in Ids :
        /\ FailedOn(u, s)
        /\ pc[t] = "generating"
        /\ session_id[t] = s
        /\ Live(s)

\* C10: the capacity test of open passes exactly when fewer than
\* MAX_SESSIONS entries are live; an open that passed it returns ok and adds
\* one live entry under an id that was never used; a close of a live session
\* removes one live entry; and the requests of the scenario, issued one after
\* the other before anything expires, return ok, ok, CapacityExceeded, ok, ok.
ScenarioResults == <<"ok", "ok", "CapacityExceeded", "ok", "ok">>
C10_OpenWhenRoom ==
    [][/\ \A t \in Threads :
            /\ OpenChecks(t)
               => IF Cardinality(LiveIds) < MAX_SESSIONS
                  THEN pc'[t] = "open_session"
                  ELSE pc'[t] = "idle" /\ result'[t] = "CapacityExceeded"
            /\ OpenStores(t)
               => /\ result'[t] = "ok"
                  /\ session_id'[t] \notin handles
                  /\ session_id'[t] \notin DOMAIN inference_sessions
                  /\ LiveIds' = LiveIds \cup {session_id'[t]}
            /\ (CloseDeletes(t) /\ Live(session_id[t]))
               => LiveIds' = LiveIds \ {session_id[t]}
       /\ (script' # Off /\ now' <= STEP_TIMEOUT)
          => script' = SubSeq(ScenarioResults, 1, Len(script'))]_vars
C10_Witness ==
    /\ script = ScenarioResults
    /\ Cardinality(LiveIds) = MAX_SESSIONS

\* positions inside http_api_generate
GenPcs == {"gen_acquire", "gen_get", "gen_store", "gen_lock", "generating"}
\* thread t takes a step of a generate that names no session
SessionlessStep(t) ==
    /\ pc[t] \in GenPcs
    /\ session_id[t] = NoSession
    /\ pc'[t] # pc[t]
\* thread t returns UnknownModel in this step
RejectsModel(t) == pc[t] = "idle" /\ pc'[t] = "idle"
                   /\ result'[t] = "UnknownModel"
                   /\ <<session_id[t], result[t]>>
                        # <<session_id'[t], result'[t]>>
\* thread t enters model.generate with a session's handle
Invokes(t) == pc[t] = "gen_lock" /\ pc'[t] = "generating"
              /\ session_id[t] \in Ids

\* C11: a close that names an id without a live entry leaves every other
\* id's entry and expiration, every session lock and the set of live entries
\* as they were, removes nothing at all when the id is no key of the
\* registry, and leaves storage_lock free.
C11_IdempotentClose ==
    [][\A t \in Threads :
          (CloseDeletes(t) /\ ~Live(session_id[t]))
          => /\ \A s \in Ids \ {session_id[t]} :
                  /\ s \in DOMAIN inference_sessions
                     <=> s \in DOMAIN inference_sessions'
                  /\ s \in DOMAIN inference_sessions
                     => inference_sessions'[s] = inference_sessions[s]
             /\ session_id[t] \notin DOMAIN inference_sessions
                => inference_sessions' = inference_sessions
             /\ lock_owner' = lock_owner
             /\ LiveIds' = LiveIds
             /\ storage_lock' = NoThread
             /\ pc'[t] = "idle"]_vars
C11_Witness ==
    \E t \in Threads :
        /\ pc[t] = "idle"
        /\ result[t] = "ok"
        /\ session_id[t] = UnknownId
        /\ LiveIds # {}

\* C12: a generate that names no session never stands at the lookup, and
\* none of its steps changes the registry, storage_lock or a session lock;
\* at the with statement it can always go on.
C12_SessionlessGenerate ==
    [][\A t \in Threads :
          /\ SessionlessStep(t)
             => /\ pc[t] \in {"gen_lock", "generating"}
                /\ inference_sessions' = inference_sessions
                /\ storage_lock' = storage_lock
                /\ lock_owner' = lock_owner
          /\ (pc'[t] \in GenPcs /\ session_id'[t] = NoSession)
             => pc'[t] \in {"gen_lock", "generating"}
          /\ (pc[t] = "gen_lock" /\ session_id[t] = NoSession)
             => ENABLED GenerateLock(t)]_vars
C12_Witness ==
    \E t, u \in Threads :
        /\ pc[t] = "generating"
        /\ session_id[t] = NoSession
        /\ pc[u] = "generating"
        /\ session_id[u] \in Ids

\* C13: a request that returns UnknownModel does so in its first step,
\* with storage_lock, the registry, the session locks and the handles as they
\* were.
C13_UnknownModel ==
    [][\A t \in Threads :
          /\ RejectsModel(t)
             => /\ inference_sessions' = inference_sessions
                /\ storage_lock' = storage_lock
                /\ lock_owner' = lock_owner
                /\ handles' = handles
                /\ next_id' = next_id
          /\ result'[t] = "UnknownModel" => pc[t] = "idle"]_vars
C13_Witness ==
    \E t \in Threads :
        /\ pc[t] = "idle"
        /\ result[t] = "UnknownModel"
        /\ Live(session_id[t])
        /\ inference_sessions[session_id[t]] < now + STEP_TIMEOUT

\* C14: every handle whose session has left the registry has been released.
C14_HandleClosedOnce ==
    \A s \in handles : s \notin DOMAIN inference_sessions => s \in Collected

\* C15 as stated: the refresh of a session's expiration happens while the
\* refreshing generate holds the session's lock.
C15_RefreshUnderSessionLock ==
    [][\A t \in Threads :
          Refreshes(t) => lock_owner[LockOf(session_id[t])] = t]_vars
\* C15 (amended): the refresh happens under storage_lock, before the
\* session's lock is taken and before model.generate; no later step of the
\* generate touches the registry.
C15_RefreshBeforeGeneration ==
    [][\A t \in Threads :
          /\ Refreshes(t)
             => /\ storage_lock = t
                /\ lock_owner[LockOf(session_id[t])] # t
                /\ pc'[t] = "gen_lock"
                /\ storage_lock' = NoThread
          /\ (pc[t] \in {"gen_lock", "generating"} /\ pc'[t] # pc[t])
             => inference_sessions' = inference_sessions]_vars
C15_Witness ==
    \E t, u \in Threads, s \in Ids :
        /\ pc[t] = "gen_lock"
        /\ session_id[t] = s
        /\ lock_owner[s] = u
        /\ u # t
        /\ now > 0
        /\ touched[s] = now

\* C16: the holder of storage_lock neither holds nor waits for a session
\* lock and is not inside model.generate; the holder of a session lock does
\* not wait for storage_lock.
C16_NoNesting ==
    /\ storage_lock # NoThread
       => /\ pc[storage_lock] \in {"open_session", "gen_get", "gen_store"}
          /\ \A s \in Ids : lock_owner[s] # storage_lock
    /\ \A s \in Ids :
          lock_owner[s] # NoThread => pc[lock_owner[s]] = "generating"
C16_Witness ==
    \E t, u \in Threads, s \in Ids :
        /\ storage_lock = t
        /\ lock_owner[s] = u

\* C17: model.generate is never entered with the handle of a session on
\* which a close has completed.
C17_NoUseAfterClose ==
    [][\A t \in Threads : Invokes(t) => session_id[t] \notin closed]_vars

\* C18: an open whose capacity test meets only expired entries, however
\* many, passes the test; the test counts the live entries alone.
C18_ExpiredFreeCapacity ==
    [][\A t \in Threads :
          (OpenChecks(t) /\ LiveIds = {})
          => /\ pc'[t] = "open_session"
             /\ inference_sessions' = EmptyStorage]_vars
C18_Witness ==
    \E t \in Threads :
        /\ pc[t] = "open_session"
        /\ closed = {}
        /\ Cardinality(handles) = MAX_SESSIONS
        /\ now > STEP_TIMEOUT

\* C20: a generate that passed the membership test fetches and refreshes
\* its entry; a lookup ends in SessionNotFound or in a refreshed live entry.
C20_AtomicLookup ==
    [][\A t \in Threads :
          /\ Gets(t) => pc'[t] = "gen_store"
          /\ Refreshes(t) => Live(session_id[t])'
          /\ (pc[t] \in {"gen_acquire", "gen_get", "gen_store"}
              /\ pc'[t] = "idle")
             => result'[t] = "SessionNotFound"]_vars

\* C19: under fair scheduling every open, close and generate request
\* eventually returns, and a generate waiting for a session's lock
\* eventually acquires it.
C19_Progress ==
    \A t \in Threads :
        /\ (pc[t] # "idle") ~> (pc[t] = "idle")
        /\ (pc[t] = "gen_lock") ~> (pc[t] = "generating")
====
